---- MODULE Spec2Model ----
(***************************************************************************)
(* Model of the query-introspection core of safe-sift:                     *)
(*   normalizeQuery  (src/src/getValue/normalize-query.ts)                 *)
(*   normalizeEquality, isOperatorKey, bagFromPreds, mergeOpsBags          *)
(*   getFilterOps    (get-filter-ops.ts)                                   *)
(*                                                                         *)
(* JavaScript strings are sequences of one-character strings, so that      *)
(* startsWith("$") and the template `${basePath}.${key}` are computed.     *)
(* A JavaScript value is a record [t, v, keys, kids]:                      *)
(*   t = "num" | "null" | "undef"   v = the number (0 for null/undefined)  *)
(*   t = "str"                      v = which string it is                 *)
(*   t = "date" | "regex"           v = the identity of the object         *)
(*   t = "arr"   kids = the items, v = the identity of the array           *)
(*   t = "obj"   keys[i], kids[i] = the i-th own property in               *)
(*               Object.entries order (insertion order of string keys)     *)
(***************************************************************************)
EXTENDS Integers, Sequences, FiniteSets, TLC

\* ------------------------------------------------------------------ bounds
\* numeric leaf values are 1..MaxVal
MaxVal == 2

\* ----------------------------------------------------------------- strings
S_empty == <<>>
S_a == <<"a">>
S_b == <<"b">>
S_p == <<"p">>
S_ab == <<"a", ".", "b">>
S_dot == <<".">>
K_and == <<"$", "a", "n", "d">>
K_or == <<"$", "o", "r">>
K_nor == <<"$", "n", "o", "r">>
K_not == <<"$", "n", "o", "t">>
K_eq == <<"$", "e", "q">>
K_ne == <<"$", "n", "e">>
K_gt == <<"$", "g", "t">>
K_gte == <<"$", "g", "t", "e">>
K_lt == <<"$", "l", "t">>
K_lte == <<"$", "l", "t", "e">>
K_in == <<"$", "i", "n">>
K_nin == <<"$", "n", "i", "n">>
K_exists == <<"$", "e", "x", "i", "s", "t", "s">>
K_regex == <<"$", "r", "e", "g", "e", "x">>
K_size == <<"$", "s", "i", "z", "e">>
K_all == <<"$", "a", "l", "l">>
K_elemMatch == <<"$", "e", "l", "e", "m", "M", "a", "t", "c", "h">>
K_type == <<"$", "t", "y", "p", "e">>
K_bitsAllSet == <<"$", "b", "i", "t", "s", "A", "l", "l", "S", "e", "t">>
K_bitsAnySet == <<"$", "b", "i", "t", "s", "A", "n", "y", "S", "e", "t">>
K_bitsAllClear == <<"$", "b", "i", "t", "s", "A", "l", "l", "C", "l", "e", "a", "r">>
K_bitsAnyClear == <<"$", "b", "i", "t", "s", "A", "n", "y", "C", "l", "e", "a", "r">>
K_foo == <<"$", "f", "o", "o">>

\* the closed union type MqlOperator
MqlOperator ==
  { K_eq, K_ne, K_gt, K_gte, K_lt, K_lte, K_in, K_nin, K_exists, K_regex,
    K_size, K_all, K_elemMatch, K_type, K_not,
    K_bitsAllSet, K_bitsAnySet, K_bitsAllClear, K_bitsAnyClear }

\* ------------------------------------------------------------------ values
Num(i) == [t |-> "num", v |-> i, keys |-> <<>>, kids |-> <<>>]
Str(i) == [t |-> "str", v |-> i, keys |-> <<>>, kids |-> <<>>]
Null == [t |-> "null", v |-> 0, keys |-> <<>>, kids |-> <<>>]
Undefined == [t |-> "undef", v |-> 0, keys |-> <<>>, kids |-> <<>>]
DateV(r) == [t |-> "date", v |-> r, keys |-> <<>>, kids |-> <<>>]
RegexV(r) == [t |-> "regex", v |-> r, keys |-> <<>>, kids |-> <<>>]
Arr(r, items) == [t |-> "arr", v |-> r, keys |-> <<>>, kids |-> items]
Obj(ks, vs) == [t |-> "obj", v |-> 0, keys |-> ks, kids |-> vs]
EmptyObj == Obj(<<>>, <<>>)
O1(k, x) == Obj(<<k>>, <<x>>)
O2(k1, x1, k2, x2) == Obj(<<k1, k2>>, <<x1, x2>>)
\* the object holding the properties of d1 followed by those of d2
Concat(d1, d2) == Obj(d1.keys \o d2.keys, d1.kids \o d2.kids)

\* Array.isArray(x)
IsArray(x) == x.t = "arr"

\* mutation of NotAnObject: the Array.isArray(q) test is missing
NotAnObject_ArraysPass(q) == q.t \in {"null", "undef", "num", "str"}

\* !q || typeof q !== "object" || Array.isArray(q)
NotAnObject(q) == q.t \in {"null", "undef", "num", "str"} \/ IsArray(q)

\* Object.prototype.toString.call(x) === "[object Object]"
isPlainObject(x) == x.t = "obj"

\* k.startsWith("$")
isOperatorKey(k) == Len(k) > 0 /\ k[1] = "$"

\* Object.keys(val).filter(isOperatorKey)
opKeys(val) == SelectSeq(val.keys, isOperatorKey)

createPredicateFromOperator(path, op, value) ==
  [path |-> path, op |-> op, value |-> value]

RECURSIVE EntriesToPreds(_, _, _)
\* for (const [op, val] of entries) if (isOperatorKey(op)) predicates.push(...)
EntriesToPreds(path, val, i) ==
  IF i > Len(val.keys) THEN <<>>
  ELSE (IF isOperatorKey(val.keys[i])
        THEN <<createPredicateFromOperator(path, val.keys[i], val.kids[i])>>
        ELSE <<>>) \o EntriesToPreds(path, val, i + 1)

normalizeEquality(path, v) ==
  IF isPlainObject(v) /\ \A i \in 1..Len(v.keys) : isOperatorKey(v.keys[i])
  THEN EntriesToPreds(path, v, 1)
  ELSE <<[path |-> path, op |-> K_eq, value |-> v]>>

\* const acc: Normalized = { and: [], or: [] }
EmptyAcc == [and |-> <<>>, or |-> <<>>]

\* mutation of PushAll: the sub-result is put in front of the accumulator
PushAll_Prepend(acc, n) == [and |-> n.and \o acc.and, or |-> n.or \o acc.or]

\* mutation of PushAll: the branches of the sub-result are dropped
PushAll_DropBranches(acc, n) == [and |-> acc.and \o n.and, or |-> acc.or]

\* acc.and.push(...n.and); acc.or.push(...n.or)
PushAll(acc, n) == [and |-> acc.and \o n.and, or |-> acc.or \o n.or]

\* mutation of PushBranch: the conjuncts of an alternative are multiplied into
\* each of its nested branches (disjunctive normal form)
PushBranch_Cross(acc, n) ==
  [and |-> acc.and,
   or |-> acc.or \o
          (IF Len(n.or) # 0 THEN [i \in 1..Len(n.or) |-> n.and \o n.or[i]]
           ELSE IF Len(n.and) # 0 THEN <<n.and>> ELSE <<>>)]

\* if (n.and.length) acc.or.push([...n.and]); if (n.or.length) acc.or.push(...n.or)
PushBranch(acc, n) ==
  [and |-> acc.and,
   or |-> acc.or \o (IF Len(n.and) # 0 THEN <<n.and>> ELSE <<>>) \o n.or]

\* key === "$and" && Array.isArray(val)
IsAndEntry(key, val) == key = K_and /\ IsArray(val)

\* key === "$or" && Array.isArray(val)
IsOrEntry(key, val) == key = K_or /\ IsArray(val)

\* mutation of IsNorEntry: $nor is not skipped
IsNorEntry_Never(key) == FALSE

\* key === "$nor"
IsNorEntry(key) == key = K_nor

\* mutation of JoinPath: $not adds no path segment
JoinPath_NotTransparent(basePath, key) ==
  IF key = K_not THEN basePath
  ELSE IF Len(basePath) # 0 THEN basePath \o S_dot \o key ELSE key

\* basePath ? `${basePath}.${key}` : key
JoinPath(basePath, key) ==
  IF Len(basePath) # 0 THEN basePath \o S_dot \o key ELSE key

\* if (opKeys.length) { ...push one predicate per operator key...; continue }
HasOperatorKeys(val) == Len(opKeys(val)) # 0

RECURSIVE normalizeQuery(_, _)
RECURSIVE AndLoop(_, _, _, _)
RECURSIVE OrLoop(_, _, _, _)
RECURSIVE EntryLoop(_, _, _, _)

\* for (const sub of val) { const n = normalizeQuery(sub, basePath); push all }
AndLoop(subs, basePath, i, acc) ==
  IF i > Len(subs) THEN acc
  ELSE AndLoop(subs, basePath, i + 1,
               PushAll(acc, normalizeQuery(subs[i], basePath)))

\* for (const sub of val) { const n = normalizeQuery(sub, basePath); push branch }
OrLoop(subs, basePath, i, acc) ==
  IF i > Len(subs) THEN acc
  ELSE OrLoop(subs, basePath, i + 1,
              PushBranch(acc, normalizeQuery(subs[i], basePath)))

\* one iteration of for (const [key, val] of Object.entries(q))
EntryStep(key, val, basePath, acc) ==
  IF IsAndEntry(key, val) THEN AndLoop(val.kids, basePath, 1, acc)
  ELSE IF IsOrEntry(key, val) THEN OrLoop(val.kids, basePath, 1, acc)
  ELSE IF IsNorEntry(key) THEN acc
  ELSE LET path == JoinPath(basePath, key) IN
       IF isPlainObject(val)
       THEN IF HasOperatorKeys(val)
            THEN [and |-> acc.and \o EntriesToPreds(path, val, 1), or |-> acc.or]
            ELSE PushAll(acc, normalizeQuery(val, path))
       ELSE [and |-> acc.and \o normalizeEquality(path, val), or |-> acc.or]

\* the decimal numeral of n, the key of the array index n
RECURSIVE IndexKey(_)
IndexKey(n) ==
  LET digits == <<"0", "1", "2", "3", "4", "5", "6", "7", "8", "9">>
  IN IF n < 10 THEN <<digits[n + 1]>>
     ELSE IndexKey(n \div 10) \o <<digits[(n % 10) + 1]>>

\* Object.entries(q): the own enumerable properties; those of an array are
\* its indices, a Date or a RegExp has none
EntryKeys(q) ==
  IF IsArray(q) THEN [i \in 1..Len(q.kids) |-> IndexKey(i - 1)] ELSE q.keys

EntryVals(q) == q.kids

EntryLoop(q, basePath, i, acc) ==
  IF i > Len(EntryKeys(q)) THEN acc
  ELSE EntryLoop(q, basePath, i + 1,
                 EntryStep(EntryKeys(q)[i], EntryVals(q)[i], basePath, acc))

\* a Date or a RegExp passes the guard
normalizeQuery(q, basePath) ==
  IF NotAnObject(q) THEN EmptyAcc
  ELSE EntryLoop(q, basePath, 1, EmptyAcc)

\* ------------------------------------------------------------------- bags
\* An OpsBag is the sequence of its [op, value] properties in key order.
EmptyBag == <<>>

\* Object.keys(bag).length
BagSize(bag) == Len(bag)

\* the index of the property op of the bag, 0 when the bag has none
BagIndex(bag, op) ==
  IF \E i \in 1..Len(bag) : bag[i].op = op
  THEN CHOOSE i \in 1..Len(bag) : bag[i].op = op
  ELSE 0

\* mutation of BagSet: an operator already in the bag keeps its value
BagSet_KeepFirst(bag, op, value) ==
  IF BagIndex(bag, op) # 0 THEN bag
  ELSE Append(bag, [op |-> op, value |-> value])

\* bag[op] = value
BagSet(bag, op, value) ==
  IF BagIndex(bag, op) # 0
  THEN [bag EXCEPT ![BagIndex(bag, op)] = [op |-> op, value |-> value]]
  ELSE Append(bag, [op |-> op, value |-> value])

RECURSIVE BagFromPredsLoop(_, _, _)
\* for (const p of preds) bag[p.op] = p.value
BagFromPredsLoop(preds, i, bag) ==
  IF i > Len(preds) THEN bag
  ELSE BagFromPredsLoop(preds, i + 1, BagSet(bag, preds[i].op, preds[i].value))

bagFromPreds(preds) == BagFromPredsLoop(preds, 1, EmptyBag)

RECURSIVE ObjectAssign(_, _, _)
\* Object.assign(acc, b): every property of b is set on acc, in b's key order
ObjectAssign(acc, b, i) ==
  IF i > Len(b) THEN acc
  ELSE ObjectAssign(BagSet(acc, b[i].op, b[i].value), b, i + 1)

RECURSIVE MergeLoop(_, _, _)
MergeLoop(bags, i, acc) ==
  IF i > Len(bags) THEN acc
  ELSE MergeLoop(bags, i + 1, ObjectAssign(acc, bags[i], 1))

\* bags.reduce((acc, b) => Object.assign(acc, b), {})
mergeOpsBags(bags) == MergeLoop(bags, 1, EmptyBag)

\* ------------------------------------------------------------ getFilterOps
\* The result OpsBag | OpsBag[] | undefined
ResUndefined == [kind |-> "undefined", bag |-> <<>>, bags |-> <<>>]
ResBag(b) == [kind |-> "bag", bag |-> b, bags |-> <<>>]
ResArray(bs) == [kind |-> "array", bag |-> <<>>, bags |-> bs]

\* preds.filter((p) => p.path === fieldPath)
FilterPath(preds, fieldPath) ==
  LET Hit(p) == p.path = fieldPath IN SelectSeq(preds, Hit)

\* or.map((branch) => bagFromPreds(branch.filter(...)))
MapBranchBags(or, fieldPath) ==
  [i \in 1..Len(or) |-> bagFromPreds(FilterPath(or[i], fieldPath))]

\* mutation of FilterNonEmpty: the empty branch bags are kept
FilterNonEmpty_KeepAll(bags) == bags

\* .filter((bag) => Object.keys(bag).length)
FilterNonEmpty(bags) ==
  LET NonEmpty(b) == BagSize(b) # 0 IN SelectSeq(bags, NonEmpty)

\* mutation of ModeOf: the default mode is "all"
ModeOf_DefaultAll(options) == IF options.orMode = "unset" THEN "all" ELSE options.orMode

\* options.orMode || "first"
ModeOf(options) == IF options.orMode = "unset" THEN "first" ELSE options.orMode

\* mutation of AndOnly: the AND-level bag is returned even when it is empty
AndOnly_EmptyBag(andBag) == ResBag(andBag)

\* return Object.keys(andBag).length ? andBag : undefined
AndOnly(andBag) == IF BagSize(andBag) # 0 THEN ResBag(andBag) ELSE ResUndefined

\* mutation of MergeFirst: the AND-level value wins on a common operator
MergeFirst_AndWins(andBag, branchBags) ==
  ResBag(mergeOpsBags(<<branchBags[1], andBag>>))

\* return mergeOpsBags(andBag, firstBag)
MergeFirst(andBag, branchBags) == ResBag(mergeOpsBags(<<andBag, branchBags[1]>>))

\* mutation of MergeEach: the branch bags are returned without the AND level
MergeEach_NoAnd(andBag, branchBags) == ResArray(branchBags)

\* return branchBags.map((b) => mergeOpsBags(andBag, b))
MergeEach(andBag, branchBags) ==
  ResArray([i \in 1..Len(branchBags) |-> mergeOpsBags(<<andBag, branchBags[i]>>)])

getFilterOps(query, fieldPath, options) ==
  LET n == normalizeQuery(query, S_empty)
      andBag == bagFromPreds(FilterPath(n.and, fieldPath))
      branchBags == FilterNonEmpty(MapBranchBags(n.or, fieldPath))
  IN IF Len(n.or) = 0 THEN AndOnly(andBag)
     ELSE IF Len(branchBags) = 0 THEN AndOnly(andBag)
     ELSE IF ModeOf(options) = "first" THEN MergeFirst(andBag, branchBags)
     ELSE MergeEach(andBag, branchBags)

\* ---------------------------------------------------------- getFilterValue
\* The result unknown | OpsBag | OpsBag[] | undefined. Returning a value that
\* is undefined is returning undefined.
ValUndefined == [kind |-> "undefined", value |-> Undefined, bag |-> <<>>, bags |-> <<>>]
ValOf(v) ==
  IF v.t = "undef" THEN ValUndefined
  ELSE [kind |-> "value", value |-> v, bag |-> <<>>, bags |-> <<>>]
ValOps(r) == [kind |-> r.kind, value |-> Undefined, bag |-> r.bag, bags |-> r.bags]

\* bag[op]
BagLookup(bag, op) ==
  IF BagIndex(bag, op) # 0 THEN bag[BagIndex(bag, op)].value ELSE Undefined

\* if (op): the operator argument is given (neither undefined nor "")
OpGiven(op) == Len(op) # 0

\* mutation of PickOp: the first array element that has the operator is read
PickOp_AnyElement(r, op) ==
  IF r.kind = "array"
  THEN IF \E i \in 1..Len(r.bags) : BagIndex(r.bags[i], op) # 0
       THEN ValOf(BagLookup(r.bags[CHOOSE i \in 1..Len(r.bags) :
                                     /\ BagIndex(r.bags[i], op) # 0
                                     /\ \A j \in 1..(i - 1) : BagIndex(r.bags[j], op) = 0], op))
       ELSE ValUndefined
  ELSE ValOf(BagLookup(r.bag, op))

\* if (Array.isArray(ops)) { const firstOps = ops[0];
\*   return firstOps ? firstOps[op] : undefined } return ops[op]
PickOp(r, op) ==
  IF r.kind = "array"
  THEN IF Len(r.bags) # 0 THEN ValOf(BagLookup(r.bags[1], op)) ELSE ValUndefined
  ELSE ValOf(BagLookup(r.bag, op))

\* mutation of PreferEq: an array is returned as it is
PreferEq_ArrayAsIs(r) ==
  IF r.kind = "array" THEN ValOps(r)
  ELSE IF BagLookup(r.bag, K_eq).t # "undef" THEN ValOf(BagLookup(r.bag, K_eq))
  ELSE ValOps(r)

\* op omitted: first["$eq"] !== undefined ? first["$eq"] : ops, for the first
\* bag of an array or for the single bag
PreferEq(r) ==
  IF r.kind = "array"
  THEN IF Len(r.bags) # 0 /\ BagLookup(r.bags[1], K_eq).t # "undef"
       THEN ValOf(BagLookup(r.bags[1], K_eq))
       ELSE ValOps(r)
  ELSE IF BagLookup(r.bag, K_eq).t # "undef" THEN ValOf(BagLookup(r.bag, K_eq))
  ELSE ValOps(r)

getFilterValue(query, fieldPath, op, options) ==
  LET r == getFilterOps(query, fieldPath, options)
  IN IF r.kind = "undefined" THEN ValUndefined
     ELSE IF OpGiven(op) THEN PickOp(r, op)
     ELSE PreferEq(r)

\* --------------------------------------------------------- areQueriesEqual
\* typeof x
TypeOf(x) ==
  CASE x.t = "num" -> "number"
    [] x.t = "str" -> "string"
    [] x.t = "undef" -> "undefined"
    [] OTHER -> "object"

\* a === b: primitives by value; objects by reference, where v # 0 is the
\* identity of an object and an object with v = 0 is a literal of its own
StrictEquals(a, b) ==
  IF a.t \in {"num", "str", "null", "undef"} THEN a.t = b.t /\ a.v = b.v
  ELSE a.v # 0 /\ a = b

\* the UTF-16 code unit order of the characters that occur in keys
CharOrder ==
  <<"$", ".", "0", "1", "2", "3", "4", "5", "6", "7", "8", "9",
    "A", "B", "C", "D", "E", "F", "G", "H", "I", "J", "K", "L", "M",
    "N", "O", "P", "Q", "R", "S", "T", "U", "V", "W", "X", "Y", "Z",
    "a", "b", "c", "d", "e", "f", "g", "h", "i", "j", "k", "l", "m",
    "n", "o", "p", "q", "r", "s", "t", "u", "v", "w", "x", "y", "z">>

CharCode(c) == CHOOSE i \in 1..Len(CharOrder) : CharOrder[i] = c

RECURSIVE StringLess(_, _)
\* the default comparison of Array.prototype.sort on strings
StringLess(x, y) ==
  IF Len(y) = 0 THEN FALSE
  ELSE IF Len(x) = 0 THEN TRUE
  ELSE IF Head(x) = Head(y) THEN StringLess(Tail(x), Tail(y))
  ELSE CharCode(Head(x)) < CharCode(Head(y))

RECURSIVE InsertSorted(_, _)
InsertSorted(k, sorted) ==
  IF Len(sorted) = 0 THEN <<k>>
  ELSE IF StringLess(Head(sorted), k) THEN <<Head(sorted)>> \o InsertSorted(k, Tail(sorted))
  ELSE <<k>> \o sorted

RECURSIVE SortLoop(_, _, _)
SortLoop(keys, i, sorted) ==
  IF i > Len(keys) THEN sorted
  ELSE SortLoop(keys, i + 1, InsertSorted(keys[i], sorted))

\* mutation of SortedKeys: the keys are compared in insertion order
SortedKeys_Unsorted(x) == EntryKeys(x)

\* Object.keys(x).sort()
SortedKeys(x) == SortLoop(EntryKeys(x), 1, <<>>)

\* x[key]
PropGet(x, key) ==
  IF \E i \in 1..Len(EntryKeys(x)) : EntryKeys(x)[i] = key
  THEN EntryVals(x)[CHOOSE i \in 1..Len(EntryKeys(x)) : EntryKeys(x)[i] = key]
  ELSE Undefined

\* value !== null && typeof value === "object" && !Array.isArray(value)
isObject(value) ==
  value.t # "null" /\ TypeOf(value) = "object" /\ ~IsArray(value)

\* a === null || b === null || a === undefined || b === undefined
EitherNullish(a, b) ==
  a.t = "null" \/ b.t = "null" \/ a.t = "undef" \/ b.t = "undef"

\* mutation of NullishEquals: null and undefined are taken for equal (a == b)
NullishEquals_Loose(a, b) ==
  a.t \in {"null", "undef"} /\ b.t \in {"null", "undef"}

\* return a === b, in the branch where a side is null or undefined
NullishEquals(a, b) == StrictEquals(a, b)

\* mutation of SameIndex: an item is looked for anywhere in the other array
SameIndex_Anywhere(i, n) == 1..n

\* the indices of b that the item at index i of a is compared with: b[index]
SameIndex(i, n) == {i}

RECURSIVE deepEqual(_, _)
deepEqual(a, b) ==
  IF StrictEquals(a, b) THEN TRUE
  ELSE IF EitherNullish(a, b) THEN NullishEquals(a, b)
  ELSE IF TypeOf(a) # TypeOf(b) THEN FALSE
  ELSE IF TypeOf(a) # "object" THEN StrictEquals(a, b)
  ELSE IF IsArray(a) /\ IsArray(b)
       THEN IF Len(a.kids) # Len(b.kids) THEN FALSE
            ELSE \A i \in 1..Len(a.kids) :
                   \E j \in SameIndex(i, Len(b.kids)) : deepEqual(a.kids[i], b.kids[j])
  ELSE IF IsArray(a) \/ IsArray(b) THEN FALSE
  ELSE IF ~isObject(a) \/ ~isObject(b) THEN FALSE
  ELSE LET aKeys == SortedKeys(a)
           bKeys == SortedKeys(b)
       IN IF Len(aKeys) # Len(bKeys) THEN FALSE
          ELSE IF ~(\A i \in 1..Len(aKeys) : aKeys[i] = bKeys[i]) THEN FALSE
          ELSE \A i \in 1..Len(aKeys) :
                 deepEqual(PropGet(a, aKeys[i]), PropGet(b, aKeys[i]))

areQueriesEqual(query1, query2) == deepEqual(query1, query2)

\* ------------------------------------------------------- input documents
Vals == 1..MaxVal

\* the array literal [x], [x, y]
A1(x) == Arr(0, <<x>>)
A2(x, y) == Arr(0, <<x, y>>)

\* the documents over the fields a, b and a.b that the logical forms combine
CoreDocs ==
  { O1(S_a, Num(x)) : x \in Vals }
  \cup { O1(S_a, O1(K_gte, Num(x))) : x \in Vals }
  \cup { O1(S_a, O1(K_lte, Num(x))) : x \in Vals }
  \cup { O1(S_a, O2(K_gte, Num(x), K_lte, Num(MaxVal))) : x \in Vals }
  \cup { O1(S_a, O1(S_b, Num(x))) : x \in Vals }
  \cup { O1(S_ab, Num(x)) : x \in Vals }
  \cup { O1(S_b, Num(1)), O2(S_a, Num(1), S_b, Num(2)) }

\* documents that hold field keys only
FieldDocs ==
  CoreDocs
  \cup { O1(S_a, O1(S_b, O1(K_gt, Num(1)))),
         O1(S_a, DateV(1)),
         O1(S_a, RegexV(2)),
         O1(S_a, Arr(3, <<Num(1), Num(2)>>)),
         O1(S_a, Null),
         O1(S_a, Undefined),
         O1(S_a, EmptyObj),
         O1(S_a, O1(K_foo, Num(1))),
         O1(S_a, O1(K_or, A1(O1(S_b, Num(1))))),
         O1(S_a, O1(K_nor, A1(O1(S_b, Num(1))))),
         O1(S_a, O1(K_not, O1(K_gt, Num(1)))),
         O1(S_a, O2(K_gte, Num(1), S_b, Num(2))),
         O1(S_a, O2(S_b, Num(2), K_gte, Num(1))),
         O1(S_empty, Num(1)),
         O1(S_a, O1(S_empty, Num(1))),
         O1(S_empty, O1(S_b, Num(1))) }

\* documents whose only key is a "$" key that is not a $and / $or / $nor array
OddDocs ==
  { O1(K_foo, Num(1)),
    O1(K_and, Num(1)),
    O1(K_or, O1(S_a, Num(1))),
    O1(K_not, O1(S_a, Num(1))),
    O1(K_nor, O1(S_a, Num(1))) }

\* what is not a document at all
NonDocs == { Null, Undefined, Num(1), A1(Num(1)), DateV(1) }

Atoms == FieldDocs \cup OddDocs \cup { EmptyObj }

\* the elements used to fill the other places of a $and / $or / $nor array
Small ==
  { O1(S_a, Num(1)), O1(S_a, O1(K_lte, Num(1))), O1(S_b, Num(1)), EmptyObj, Num(1) }

SmallDocs == { y \in Small : isPlainObject(y) }

SmallFields == { y \in SmallDocs : Len(y.keys) # 0 }

\* one logical key over atoms
Logic1 ==
  { O1(k, A1(x)) : k \in {K_and, K_or, K_nor}, x \in Atoms }
  \cup { O1(k, A2(x, y)) : k \in {K_and, K_or}, x \in Atoms, y \in Small }
  \cup { O1(k, A2(y, x)) : k \in {K_and, K_or}, x \in CoreDocs, y \in Small }
  \cup { Concat(x, O1(K_or, A2(y, z))) : x \in CoreDocs, y \in Small, z \in Small }
  \cup { Concat(O1(K_or, A1(y)), x) : x \in CoreDocs, y \in Small }
  \cup { O2(K_and, A1(x), K_or, A2(y, z)) : x \in CoreDocs, y \in SmallDocs, z \in SmallDocs }
  \cup { Concat(x, O1(K_nor, A1(y))) : x \in CoreDocs, y \in Small }
  \cup { Concat(O1(K_nor, A1(y)), x) : x \in CoreDocs, y \in Small }
  \cup { O1(k, A2(x, y)) : k \in {K_and, K_or}, x \in NonDocs,
                           y \in SmallFields \cup {Null, A1(O1(S_a, Num(1)))} }
  \cup { Concat(x, O1(K_and, A1(y))) : x \in CoreDocs, y \in SmallFields }
  \cup { Concat(O1(K_and, A1(y)), x) : x \in CoreDocs, y \in SmallFields }

\* logical keys inside logical keys
Logic2 ==
  { O1(K_or, A2(Concat(x, O1(K_or, A2(y, z))), w)) :
      x \in SmallDocs, y \in SmallFields, z \in SmallFields, w \in SmallFields }
  \cup { O1(K_or, A2(Concat(O1(K_or, A1(y)), x), w)) :
      x \in SmallDocs, y \in SmallFields, w \in SmallFields }
  \cup { O1(K_and, A2(O1(K_or, A2(x, y)), O1(K_or, A2(z, w)))) :
      x \in SmallFields, y \in SmallFields, z \in SmallFields, w \in SmallFields }
  \cup { O1(K_and, A2(O1(K_and, A2(x, y)), z)) :
      x \in SmallFields, y \in SmallFields, z \in SmallFields }
  \cup { O1(K_or, A2(O1(K_and, A2(x, y)), z)) :
      x \in SmallFields, y \in SmallFields, z \in SmallFields }
  \cup { O1(k, A2(Concat(x, O1(K_nor, A1(y))), z)) :
      k \in {K_and, K_or}, x \in SmallDocs, y \in SmallFields, z \in SmallFields }
  \cup { O1(k, A2(Concat(O1(K_nor, A1(y)), x), z)) :
      k \in {K_and, K_or}, x \in SmallDocs, y \in SmallFields, z \in SmallFields }
  \cup { O1(S_a, O1(S_b, O1(K_and, A1(x)))) : x \in SmallFields }

Docs == Atoms \cup NonDocs \cup Logic1 \cup Logic2

FieldPaths == { S_a, S_b, S_ab }

Options == { [orMode |-> m] : m \in {"unset", "first", "all"} }

\* the basePath argument: left out (the default "") or given
BasePaths == { S_empty, S_p }

\* the op argument: left out, or one of the operators
OpArgs == { S_empty, K_eq, K_gte, K_lte }

\* ------------------------------------------------------------ QueryBuilder
\* The builder's objects live in a heap, a sequence of object values; a
\* reference is an index into it.  this.query is a reference, and so is what
\* build() returns.
MaxOps == 3

\* a truthy value, as tested by if (x) and !x
Truthy(x) ==
  CASE x.t \in {"null", "undef"} -> FALSE
    [] x.t \in {"num", "str"} -> x.v # 0
    [] OTHER -> TRUE

IndexOfKey(o, k) == CHOOSE i \in 1..Len(o.keys) : o.keys[i] = k
HasKey(o, k) == \E i \in 1..Len(o.keys) : o.keys[i] = k
RemoveAt(seq, i) == SubSeq(seq, 1, i - 1) \o SubSeq(seq, i + 1, Len(seq))

\* o[k] = x: an existing key keeps its place, a new key goes last
SetProp(o, k, x) ==
  IF HasKey(o, k)
  THEN [o EXCEPT !.kids[IndexOfKey(o, k)] = x]
  ELSE [o EXCEPT !.keys = Append(@, k), !.kids = Append(@, x)]

\* delete o[k]
DeleteProp(o, k) ==
  IF HasKey(o, k)
  THEN [o EXCEPT !.keys = RemoveAt(@, IndexOfKey(o, k)),
                 !.kids = RemoveAt(@, IndexOfKey(o, k))]
  ELSE o

\* mutation of ArrayPush: the element is put in front
ArrayPush_Front(arr, x) == [arr EXCEPT !.kids = <<x>> \o @]

\* arr.push(x)
ArrayPush(arr, x) == [arr EXCEPT !.kids = Append(@, x)]

\* the conditions the FieldBuilder methods hand to addCondition
equals(value) == value
greaterThan(value) == O1(K_gt, value)

\* currentField: string | null
NullField == [null |-> TRUE, name |-> S_empty]
FieldRef(f) == [null |-> FALSE, name |-> f]

\* new QueryBuilder(): query = {} is the first object of the heap
NewHeap == <<EmptyObj>>
NewBuilder ==
  [query |-> 1, currentField |-> NullField, pendingCondition |-> "null",
   originalBuild |-> FALSE]

\* const existingConditions = { ...this.query } without $or, $and and $not
ExistingConditions(q) ==
  DeleteProp(DeleteProp(DeleteProp(q, K_or), K_and), K_not)

\* this.query = { $or: [] }, then the existing conditions, if there are any,
\* pushed as the first OR clause
ConvertToOr(q) ==
  LET existingConditions == ExistingConditions(q)
      fresh == O1(K_or, Arr(0, <<>>))
  IN IF Len(EntryKeys(existingConditions)) > 0
     THEN SetProp(fresh, K_or, ArrayPush(PropGet(fresh, K_or), existingConditions))
     ELSE fresh

\* o[k].push({ [field]: condition })
PushCondition(o, k, field, condition) ==
  SetProp(o, k, ArrayPush(PropGet(o, k), O1(field, condition)))

\* _addCondition(field, condition, logical) on builder b in heap h; the
\* result is the heap and the builder afterwards
addCondition(h, b, field, condition, logical) ==
  LET q == h[b.query] IN
  IF logical = "or" THEN
    IF ~Truthy(PropGet(q, K_or))
    THEN LET h1 == Append(h, ConvertToOr(q))
             b1 == [b EXCEPT !.query = Len(h1)]
         IN [h |-> [h1 EXCEPT ![b1.query] = PushCondition(@, K_or, field, condition)],
             b |-> b1]
    ELSE [h |-> [h EXCEPT ![b.query] = PushCondition(@, K_or, field, condition)],
          b |-> b]
  ELSE IF logical = "and" THEN
    LET q1 == IF ~Truthy(PropGet(q, K_and)) THEN SetProp(q, K_and, Arr(0, <<>>)) ELSE q
    IN [h |-> [h EXCEPT ![b.query] = PushCondition(q1, K_and, field, condition)],
        b |-> b]
  ELSE [h |-> [h EXCEPT ![b.query] = SetProp(q, field, condition)], b |-> b]

\* where(field).<condition>
where(h, b, field, condition) ==
  addCondition(h, [b EXCEPT !.currentField = FieldRef(field)], field, condition, "none")

\* and(field).<condition>
and(h, b, field, condition) == addCondition(h, b, field, condition, "and")

\* or(field).<condition>
or_(h, b, field, condition) == addCondition(h, b, field, condition, "or")

\* mutation of not: a second not() removes the negation
not_Toggle(h, b) == [h |-> h, b |-> [b EXCEPT !.originalBuild = ~@]]

\* not(): build is replaced, once, by a function that wraps what the
\* original build returns
not(h, b) == [h |-> h, b |-> [b EXCEPT !.originalBuild = TRUE]]

\* what build() returns: this.query itself, or a new { $not: this.query }
build(h, b) == [ref |-> b.query, wrapped |-> b.originalBuild]

\* the document a build() result denotes in heap h
Document(h, r) == IF r.wrapped THEN O1(K_not, h[r.ref]) ELSE h[r.ref]

clear(h, b) ==
  [h |-> Append(h, EmptyObj), b |-> [b EXCEPT !.query = Len(h) + 1]]

removeField(h, b, field) ==
  [h |-> [h EXCEPT ![b.query] = DeleteProp(@, field)], b |-> b]

removeOr(h, b) ==
  [h |-> IF Truthy(PropGet(h[b.query], K_or))
         THEN [h EXCEPT ![b.query] = DeleteProp(@, K_or)] ELSE h,
   b |-> b]

removeAnd(h, b) ==
  [h |-> IF Truthy(PropGet(h[b.query], K_and))
         THEN [h EXCEPT ![b.query] = DeleteProp(@, K_and)] ELSE h,
   b |-> b]

removeNot(h, b) == [h |-> h, b |-> [b EXCEPT !.originalBuild = FALSE]]

removeLogical(h, b) ==
  [h |-> [h EXCEPT ![b.query] = ExistingConditions(@)],
   b |-> [b EXCEPT !.originalBuild = FALSE]]

\* the fields and conditions a caller of the builder uses
Fields == {S_a, S_b}
Conditions == {equals(Num(1)), greaterThan(Num(2))}

\* the values compared by areQueriesEqual: queries, and what is not a query
EqDocs ==
  { Num(x) : x \in Vals }
  \cup { O1(S_a, Num(x)) : x \in Vals }
  \cup { O1(S_a, O1(K_gt, Num(x))) : x \in Vals }
  \cup { Str(1), Null, Undefined, DateV(1), DateV(2), RegexV(3), EmptyObj,
         Arr(0, <<>>), A1(Num(1)), A2(Num(1), Num(2)), A2(Num(2), Num(1)),
         O1(S_b, Num(1)),
         O2(S_a, Num(1), S_b, Num(2)),
         O2(S_b, Num(2), S_a, Num(1)),
         O2(S_a, Num(1), S_b, Num(1)),
         O2(K_and, A1(O1(S_a, Num(1))), S_b, Num(2)),
         O2(S_b, Num(2), K_and, A1(O1(S_a, Num(1)))),
         O1(S_a, Null),
         O1(S_a, Undefined),
         O1(S_a, Str(1)),
         O1(S_a, EmptyObj),
         O1(S_a, DateV(1)),
         O1(S_a, DateV(2)),
         O1(S_a, RegexV(3)),
         O1(S_a, A1(Num(1))),
         O1(S_a, O1(K_in, A2(Num(1), Num(2)))),
         O1(S_a, O1(K_in, A2(Num(2), Num(1)))),
         O1(S_a, O1(K_in, A1(Num(1)))),
         O1(K_and, A1(O1(S_a, Num(1)))),
         O1(K_and, A2(O1(S_a, Num(1)), O1(S_b, Num(1)))),
         O1(K_and, A2(O1(S_b, Num(1)), O1(S_a, Num(1)))),
         O1(K_and, A2(O1(S_a, Num(1)), O1(S_a, Num(1)))),
         O1(K_and, A2(O1(S_a, Num(1)), Null)),
         O1(K_and, A2(O1(S_a, Num(1)), A1(Num(1)))),
         O1(K_and, A2(O1(S_a, Num(1)), O2(S_a, Num(1), S_b, Num(2)))),
         O1(K_and, A2(O1(S_a, Num(1)), O2(S_b, Num(2), S_a, Num(1)))),
         O1(K_or, A2(O1(S_a, Num(1)), O1(S_b, Num(1)))) }

\* the array literal [x, y, z, w]
A4(x, y, z, w) == Arr(0, <<x, y, z, w>>)

S_not_a == K_not \o S_dot \o S_a

\* the alternatives of the $or groups of the paired documents
Alternatives == { O1(S_a, Num(1)), O1(S_a, O1(K_lte, Num(MaxVal))), O1(S_b, Num(1)) }

\* two $or groups under a $and, and the same alternatives in one $or
Grouped(x, y, z, w) == O1(K_and, A2(O1(K_or, A2(x, y)), O1(K_or, A2(z, w))))
Flat(x, y, z, w) == O1(K_or, A4(x, y, z, w))

\* the documents a caller introspects side by side
PairDocs ==
  { O1(S_a, Num(x)) : x \in Vals }
  \cup { Concat(O1(S_a, Num(1)), O1(K_and, A1(O1(S_a, Num(x))))) : x \in Vals }
  \cup { Concat(O1(K_and, A1(O1(S_a, Num(x)))), O1(S_a, Num(1))) : x \in Vals }
  \cup { Null, Undefined, EmptyObj,
         O1(S_b, Num(1)),
         O2(S_a, Num(1), S_b, Num(2)),
         O2(S_b, Num(2), S_a, Num(1)),
         O1(S_a, O2(K_gte, Num(1), K_lte, Num(2))),
         O1(S_a, O2(K_lte, Num(2), K_gte, Num(1))),
         O1(S_a, DateV(1)),
         O1(S_a, DateV(2)),
         O1(S_a, RegexV(3)),
         O1(S_a, EmptyObj),
         O1(S_a, Null),
         O1(S_a, Undefined),
         O1(K_or, A1(O1(S_a, Num(1)))),
         O1(K_and, A1(O1(S_a, Num(1)))),
         O1(K_or, A2(O1(S_a, Num(1)), O1(S_a, Num(2)))),
         O1(K_or, A2(O1(S_a, Num(2)), O1(S_a, Num(1)))),
         O1(K_or, A2(O1(S_b, Num(1)), O1(S_a, Num(2)))),
         O2(S_a, O1(K_gte, Num(1)), K_or, A2(O1(S_a, O1(K_lte, Num(2))), O1(S_a, Num(1)))),
         O2(K_or, A2(O1(S_a, O1(K_lte, Num(2))), O1(S_a, Num(1))), S_a, O1(K_gte, Num(1))),
         O2(S_a, O1(K_gte, Num(1)), K_or, A2(O1(S_b, Num(1)), O1(S_a, O1(K_gte, Num(2))))),
         O1(K_not, O1(S_a, Num(1))),
         O1(K_not, O1(S_a, O1(K_gte, Num(1)))),
         O1(K_not, O1(K_or, A1(O1(S_a, Num(1))))),
         O1(K_not, Num(1)),
         O2(S_a, Num(1), K_not, O1(S_a, Num(2))),
         O2(K_not, O1(S_a, Num(2)), S_a, Num(1)),
         O2(S_b, Num(1), K_not, O1(S_a, Num(1))),
         O2(K_or, A1(O1(S_a, Num(1))), K_not, O1(S_a, Num(2))),
         O2(K_and, A1(O1(S_a, Num(1))), K_not, O1(S_a, Num(2))),
         O2(K_not, O1(S_a, Num(2)), K_or, A2(O1(S_a, Num(1)), O1(S_a, Num(2)))) }

\* the pairs of documents: any two of the above, and the two forms of four
\* alternatives
Pairs ==
  (PairDocs \X PairDocs)
  \cup { <<Grouped(x, y, z, w), Flat(x, y, z, w)>> :
           x \in Alternatives, y \in Alternatives, z \in Alternatives, w \in Alternatives }

PairPaths == { S_a, S_b, S_not_a }

\* the options of the two introspections: the same, or "all" and a default
OptionPairs ==
  { <<o, o>> : o \in Options }
  \cup { <<[orMode |-> "all"], o>> : o \in Options \ {[orMode |-> "all"]} }

\* ------------------------------------------------------------ state machine
VARIABLES
  doc,        \* the raw query document the caller holds
  basePath,   \* the basePath argument of the last normalizeQuery call
  norm,       \* what the last call of normalizeQuery(doc, basePath) returned
  fieldPath,  \* the fieldPath argument of the last getFilterOps call
  options,    \* the options argument of the last getFilterOps call
  ops,        \* what the last call of getFilterOps returned
  opArg,      \* the op argument of the last getFilterValue call
  val,        \* what the last call of getFilterValue returned
  doc2,       \* the second query of an areQueriesEqual call (doc is the first)
  eq,         \* what the last call of areQueriesEqual(doc, doc2) returned
  calls,      \* the functions called so far
  options2,   \* the options of the introspection of doc2
  norm2,      \* what normalizeQuery(doc2) returned
  ops2,       \* what getFilterOps(doc2, fieldPath, options2) returned
  val2,       \* what getFilterValue(doc2, fieldPath, opArg, options2) returned
  heap,       \* the objects of a QueryBuilder and of the documents it built
  builder,    \* the QueryBuilder's fields
  built,      \* what the last call of build() returned, and when
  sift,       \* the query of the SafeSift the last call of execute() returned
  hist        \* the builder calls made so far

secondVars == <<options2, norm2, ops2, val2>>
introspectionVars ==
  <<doc, basePath, norm, fieldPath, options, ops, opArg, val, doc2, eq, calls, secondVars>>

\* nothing was asked about doc2 yet
InitSecondVars ==
  /\ options2 = [orMode |-> "unset"]
  /\ norm2 = EmptyAcc
  /\ ops2 = ResUndefined
  /\ val2 = ValUndefined
builderVars == <<heap, builder, built, sift, hist>>
vars == <<introspectionVars, builderVars>>

NotBuilt == [ref |-> 0, wrapped |-> FALSE, at |-> 0]
NoSift == [ref |-> 0, wrapped |-> FALSE]

\* const qb = new QueryBuilder()
InitBuilderVars ==
  /\ heap = NewHeap
  /\ builder = NewBuilder
  /\ built = NotBuilt
  /\ sift = NoSift
  /\ hist = <<>>

Init ==
  /\ doc \in Docs
  /\ basePath = S_empty
  /\ norm = EmptyAcc
  /\ fieldPath = S_a
  /\ options = [orMode |-> "unset"]
  /\ ops = ResUndefined
  /\ opArg = S_empty
  /\ val = ValUndefined
  /\ doc2 = Null
  /\ eq = FALSE
  /\ calls = {}
  /\ InitSecondVars
  /\ InitBuilderVars

\* const n = normalizeQuery(doc) or normalizeQuery(doc, b)
NormalizeQuery ==
  \E b \in BasePaths :
    /\ basePath' = b
    /\ norm' = normalizeQuery(doc, b)
    /\ calls' = calls \cup {"normalizeQuery"}
    /\ UNCHANGED <<doc, fieldPath, options, ops, opArg, val, doc2, eq>>
    /\ UNCHANGED <<secondVars, builderVars>>

\* const r = getFilterOps(doc, f, o)
GetFilterOps ==
  \E f \in FieldPaths, o \in Options :
    /\ fieldPath' = f
    /\ options' = o
    /\ ops' = getFilterOps(doc, f, o)
    /\ calls' = calls \cup {"getFilterOps"}
    /\ UNCHANGED <<doc, basePath, norm, opArg, val, doc2, eq>>
    /\ UNCHANGED <<secondVars, builderVars>>

Next == NormalizeQuery \/ GetFilterOps

Spec == Init /\ [][Next]_vars

\* a caller of the value extractor holds the document and the arguments
InitValue ==
  /\ doc \in Docs
  /\ basePath = S_empty
  /\ norm = EmptyAcc
  /\ fieldPath \in FieldPaths
  /\ options \in Options
  /\ ops = ResUndefined
  /\ opArg \in OpArgs
  /\ val = ValUndefined
  /\ doc2 = Null
  /\ eq = FALSE
  /\ calls = {}
  /\ InitSecondVars
  /\ InitBuilderVars

\* const v = getFilterValue(doc, fieldPath, opArg, options), which calls
\* getFilterOps(doc, fieldPath, options)
GetFilterValue ==
  /\ ops' = getFilterOps(doc, fieldPath, options)
  /\ val' = getFilterValue(doc, fieldPath, opArg, options)
  /\ calls' = calls \cup {"getFilterOps", "getFilterValue"}
  /\ UNCHANGED <<doc, basePath, norm, fieldPath, options, opArg, doc2, eq>>
  /\ UNCHANGED <<secondVars, builderVars>>

NextValue == GetFilterValue

SpecValue == InitValue /\ [][NextValue]_vars

\* a caller of the equivalence checker holds two values
InitEq ==
  /\ doc \in EqDocs
  /\ doc2 \in EqDocs
  /\ basePath = S_empty
  /\ norm = EmptyAcc
  /\ fieldPath = S_a
  /\ options = [orMode |-> "unset"]
  /\ ops = ResUndefined
  /\ opArg = S_empty
  /\ val = ValUndefined
  /\ eq = FALSE
  /\ calls = {}
  /\ InitSecondVars
  /\ InitBuilderVars

\* const e = areQueriesEqual(doc, doc2)
AreQueriesEqual ==
  /\ eq' = areQueriesEqual(doc, doc2)
  /\ calls' = calls \cup {"areQueriesEqual"}
  /\ UNCHANGED <<doc, doc2, basePath, norm, fieldPath, options, ops, opArg, val>>
  /\ UNCHANGED <<secondVars, builderVars>>

NextEq == AreQueriesEqual

SpecEq == InitEq /\ [][NextEq]_vars

\* a caller holds two documents, a field path and the options
InitPair ==
  /\ \E pr \in Pairs : doc = pr[1] /\ doc2 = pr[2]
  /\ basePath = S_empty
  /\ norm = EmptyAcc
  /\ fieldPath \in PairPaths
  /\ \E op \in OptionPairs : options = op[1] /\ options2 = op[2]
  /\ ops = ResUndefined
  /\ opArg = S_empty
  /\ val = ValUndefined
  /\ eq = FALSE
  /\ calls = {}
  /\ norm2 = EmptyAcc
  /\ ops2 = ResUndefined
  /\ val2 = ValUndefined
  /\ InitBuilderVars

\* normalizeQuery(doc), getFilterOps(doc, fieldPath, options) and
\* getFilterValue(doc, fieldPath, undefined, options)
Introspect ==
  /\ norm' = normalizeQuery(doc, basePath)
  /\ ops' = getFilterOps(doc, fieldPath, options)
  /\ val' = getFilterValue(doc, fieldPath, opArg, options)
  /\ calls' = calls \cup {"normalizeQuery", "getFilterOps", "getFilterValue"}
  /\ UNCHANGED <<doc, basePath, fieldPath, options, opArg, doc2, eq>>
  /\ UNCHANGED <<secondVars, builderVars>>

\* the same calls on doc2 with options2
Introspect2 ==
  /\ norm2' = normalizeQuery(doc2, basePath)
  /\ ops2' = getFilterOps(doc2, fieldPath, options2)
  /\ val2' = getFilterValue(doc2, fieldPath, opArg, options2)
  /\ calls' = calls \cup {"second"}
  /\ UNCHANGED <<doc, basePath, norm, fieldPath, options, ops, opArg, val, doc2, eq>>
  /\ UNCHANGED <<options2, builderVars>>

NextPair == Introspect \/ Introspect2 \/ AreQueriesEqual

SpecPair == InitPair /\ [][NextPair]_vars

\* a caller holds a new builder
InitBuilder ==
  /\ doc = Null
  /\ basePath = S_empty
  /\ norm = EmptyAcc
  /\ fieldPath = S_a
  /\ options = [orMode |-> "unset"]
  /\ ops = ResUndefined
  /\ opArg = S_empty
  /\ val = ValUndefined
  /\ doc2 = Null
  /\ eq = FALSE
  /\ calls = {}
  /\ InitSecondVars
  /\ InitBuilderVars

Call(m, field, condition) == [m |-> m, field |-> field, cond |-> condition]

\* qb.where(f).<condition>
Where ==
  \E f \in Fields, c \in Conditions :
    LET r == where(heap, builder, f, c)
    IN /\ Len(hist) < MaxOps
       /\ heap' = r.h
       /\ builder' = r.b
       /\ hist' = Append(hist, Call("where", f, c))
       /\ UNCHANGED <<built, sift, introspectionVars>>

\* qb.and(f).<condition>
And ==
  \E f \in Fields, c \in Conditions :
    LET r == and(heap, builder, f, c)
    IN /\ Len(hist) < MaxOps
       /\ heap' = r.h
       /\ builder' = r.b
       /\ hist' = Append(hist, Call("and", f, c))
       /\ UNCHANGED <<built, sift, introspectionVars>>

\* qb.or(f).<condition>
Or ==
  \E f \in Fields, c \in Conditions :
    LET r == or_(heap, builder, f, c)
    IN /\ Len(hist) < MaxOps
       /\ heap' = r.h
       /\ builder' = r.b
       /\ hist' = Append(hist, Call("or", f, c))
       /\ UNCHANGED <<built, sift, introspectionVars>>

\* qb.not()
Not ==
  LET r == not(heap, builder)
  IN /\ Len(hist) < MaxOps
     /\ heap' = r.h
     /\ builder' = r.b
     /\ hist' = Append(hist, Call("not", S_empty, Null))
     /\ UNCHANGED <<built, sift, introspectionVars>>

\* qb.clear()
Clear ==
  LET r == clear(heap, builder)
  IN /\ Len(hist) < MaxOps
     /\ heap' = r.h
     /\ builder' = r.b
     /\ hist' = Append(hist, Call("clear", S_empty, Null))
     /\ UNCHANGED <<built, sift, introspectionVars>>

\* qb.removeField(f)
RemoveField ==
  \E f \in Fields :
    LET r == removeField(heap, builder, f)
    IN /\ Len(hist) < MaxOps
       /\ heap' = r.h
       /\ builder' = r.b
       /\ hist' = Append(hist, Call("removeField", f, Null))
       /\ UNCHANGED <<built, sift, introspectionVars>>

\* qb.removeOr()
RemoveOr ==
  LET r == removeOr(heap, builder)
  IN /\ Len(hist) < MaxOps
     /\ heap' = r.h
     /\ builder' = r.b
     /\ hist' = Append(hist, Call("removeOr", S_empty, Null))
     /\ UNCHANGED <<built, sift, introspectionVars>>

\* qb.removeAnd()
RemoveAnd ==
  LET r == removeAnd(heap, builder)
  IN /\ Len(hist) < MaxOps
     /\ heap' = r.h
     /\ builder' = r.b
     /\ hist' = Append(hist, Call("removeAnd", S_empty, Null))
     /\ UNCHANGED <<built, sift, introspectionVars>>

\* qb.removeNot()
RemoveNot ==
  LET r == removeNot(heap, builder)
  IN /\ Len(hist) < MaxOps
     /\ heap' = r.h
     /\ builder' = r.b
     /\ hist' = Append(hist, Call("removeNot", S_empty, Null))
     /\ UNCHANGED <<built, sift, introspectionVars>>

\* qb.removeLogical()
RemoveLogical ==
  LET r == removeLogical(heap, builder)
  IN /\ Len(hist) < MaxOps
     /\ heap' = r.h
     /\ builder' = r.b
     /\ hist' = Append(hist, Call("removeLogical", S_empty, Null))
     /\ UNCHANGED <<built, sift, introspectionVars>>

\* const d = qb.build()
Build ==
  /\ built' = [ref |-> build(heap, builder).ref,
               wrapped |-> build(heap, builder).wrapped,
               at |-> Len(hist)]
  /\ UNCHANGED <<heap, builder, hist, sift, introspectionVars>>

\* const s = qb.execute(): new SafeSift(this.build()) keeps what build() returned
Execute ==
  /\ sift' = build(heap, builder)
  /\ UNCHANGED <<heap, builder, hist, built, introspectionVars>>

NextBuilder ==
  \/ Where
  \/ And
  \/ Or
  \/ Not
  \/ Clear
  \/ RemoveField
  \/ RemoveOr
  \/ RemoveAnd
  \/ RemoveNot
  \/ RemoveLogical
  \/ Build
  \/ Execute

SpecBuilder == InitBuilder /\ [][NextBuilder]_vars

TypeOK ==
  /\ doc \in Docs
  /\ calls \subseteq {"normalizeQuery", "getFilterOps", "getFilterValue", "areQueriesEqual", "second"}
  /\ ops.kind \in {"undefined", "bag", "array"}

\* ============================================================== properties
\* What the properties say is written with the definitions below, which look
\* predicates up instead of folding them.

N == normalizeQuery(doc, S_empty)

CalledNormalize == "normalizeQuery" \in calls
CalledGetOps == "getFilterOps" \in calls
FirstMode == options.orMode \in {"unset", "first"}
AllMode == options.orMode = "all"

\* the predicate list holds a predicate for the field
Mentions(preds, f) == \E i \in 1..Len(preds) : preds[i].path = f

\* the indices of the branches that mention the field, in branch order
MentioningBranches(or, f) == { i \in 1..Len(or) : Mentions(or[i], f) }

RECURSIVE SetToSortedSeq(_)
SetToSortedSeq(S) ==
  IF S = {} THEN <<>>
  ELSE LET m == CHOOSE x \in S : \A y \in S : x <= y
       IN <<m>> \o SetToSortedSeq(S \ {m})

\* the positions of the predicates for field f and operator op
Hits(preds, f, op) ==
  { i \in 1..Len(preds) : preds[i].path = f /\ preds[i].op = op }

HasOp(preds, f, op) == Hits(preds, f, op) # {}

\* the value of the last predicate for field f and operator op
LastValue(preds, f, op) ==
  preds[CHOOSE i \in Hits(preds, f, op) : \A j \in Hits(preds, f, op) : j <= i].value

\* the operators of the predicates for field f
OpsFor(preds, f) == { preds[i].op : i \in { j \in 1..Len(preds) : preds[j].path = f } }

BagKeys(bag) == { bag[i].op : i \in 1..Len(bag) }
BagHas(bag, op) == op \in BagKeys(bag)
BagGet(bag, op) == bag[CHOOSE i \in 1..Len(bag) : bag[i].op = op].value
BagKeysUnique(bag) == \A i, j \in 1..Len(bag) : bag[i].op = bag[j].op => i = j

\* bag is the AND-level predicates for f overlaid with those of branch
IsMergeOf(bag, andPreds, branch, f) ==
  /\ BagKeysUnique(bag)
  /\ BagKeys(bag) = OpsFor(andPreds, f) \cup OpsFor(branch, f)
  /\ \A op \in BagKeys(bag) :
       BagGet(bag, op) = IF HasOp(branch, f, op) THEN LastValue(branch, f, op)
                         ELSE LastValue(andPreds, f, op)

\* C1: in default mode ("first" or unset), when some $or branch mentions the
\* field, getFilterOps returns one bag: the AND-level bag of the field merged
\* with the bag of the first branch that mentions it, the branch winning on a
\* common operator, and no other branch contributing.
C1_FirstBranchMerge ==
  (CalledGetOps /\ FirstMode /\ MentioningBranches(N.or, fieldPath) # {}) =>
    LET first == CHOOSE i \in MentioningBranches(N.or, fieldPath) :
                   \A j \in MentioningBranches(N.or, fieldPath) : i <= j
    IN /\ ops.kind = "bag"
       /\ IsMergeOf(ops.bag, N.and, N.or[first], fieldPath)

\* a default-mode call where two branches mention the field with different
\* bags and the first one collides with the AND level on an operator
C1_Witness ==
  /\ CalledGetOps /\ FirstMode
  /\ Cardinality(MentioningBranches(N.or, fieldPath)) >= 2
  /\ LET S == MentioningBranches(N.or, fieldPath)
         first == CHOOSE i \in S : \A j \in S : i <= j
     IN /\ \E op \in OpsFor(N.and, fieldPath) :
             /\ HasOp(N.or[first], fieldPath, op)
             /\ LastValue(N.or[first], fieldPath, op) # LastValue(N.and, fieldPath, op)
        /\ \E j \in S : OpsFor(N.or[j], fieldPath) # OpsFor(N.or[first], fieldPath)
  /\ ops.kind = "bag"

\* C5: in "all" mode, when some $or branch mentions the field, getFilterOps
\* returns an array holding, in branch order, one bag per branch that
\* mentions the field: the AND-level bag merged with that branch's bag.
C5_AllBranchesMerge ==
  (CalledGetOps /\ AllMode /\ MentioningBranches(N.or, fieldPath) # {}) =>
    LET idx == SetToSortedSeq(MentioningBranches(N.or, fieldPath))
    IN /\ ops.kind = "array"
       /\ Len(ops.bags) = Len(idx)
       /\ \A k \in 1..Len(idx) :
            IsMergeOf(ops.bags[k], N.and, N.or[idx[k]], fieldPath)

\* an "all" call over three branches of which the middle one does not mention
\* the field, with an AND-level constraint on the field
C5_Witness ==
  /\ CalledGetOps /\ AllMode
  /\ Len(N.or) >= 2
  /\ Cardinality(MentioningBranches(N.or, fieldPath)) >= 1
  /\ \E i \in 1..Len(N.or) : i \notin MentioningBranches(N.or, fieldPath)
  /\ Mentions(N.and, fieldPath)
  /\ ops.kind = "array"

\* C6: when no branch mentions the field (or there is no branch), getFilterOps
\* returns the AND-level bag if the field has an AND-level predicate and
\* undefined otherwise, whatever the orMode.
C6_OrTransparent ==
  (CalledGetOps /\ MentioningBranches(N.or, fieldPath) = {}) =>
    IF Mentions(N.and, fieldPath)
    THEN ops.kind = "bag" /\ IsMergeOf(ops.bag, N.and, <<>>, fieldPath)
    ELSE ops = ResUndefined

\* an "all" call on a document with branches, none on the field, and an
\* AND-level constraint on it: the result is a single bag
C6_Witness ==
  /\ CalledGetOps /\ AllMode
  /\ Len(N.or) >= 1
  /\ MentioningBranches(N.or, fieldPath) = {}
  /\ Mentions(N.and, fieldPath)
  /\ ops.kind = "bag"

\* C7: getFilterOps returns undefined exactly when neither the conjuncts nor
\* any branch hold a predicate for the field, and never an empty bag, an empty
\* array or an array with an empty bag.
C7_AbsentIffUnconstrained ==
  CalledGetOps =>
    /\ (ops.kind = "undefined") <=>
         (~Mentions(N.and, fieldPath) /\ MentioningBranches(N.or, fieldPath) = {})
    /\ ops.kind = "bag" => Len(ops.bag) > 0
    /\ ops.kind = "array" =>
         (Len(ops.bags) > 0 /\ \A k \in 1..Len(ops.bags) : Len(ops.bags[k]) > 0)

\* a call that returns undefined although the document has branches and
\* conjuncts, all of them on other fields
C7_Witness ==
  /\ CalledGetOps
  /\ ops.kind = "undefined"
  /\ Len(N.or) >= 1 /\ Len(N.and) >= 1

\* the document holding the properties of d before / after the i-th
Before(d, i) == Obj(SubSeq(d.keys, 1, i - 1), SubSeq(d.kids, 1, i - 1))
After(d, i) == Obj(SubSeq(d.keys, i + 1, Len(d.keys)), SubSeq(d.kids, i + 1, Len(d.kids)))

\* the positions of the top-level key k whose value is an array
ArrayEntries(d, k) ==
  IF d.t = "obj"
  THEN { i \in 1..Len(d.keys) : d.keys[i] = k /\ d.kids[i].t = "arr" }
  ELSE {}

RECURSIVE ExpectedOrBranches(_, _, _)
\* per alternative, in order: one branch with its conjuncts if it has any,
\* then its own branches
ExpectedOrBranches(alts, base, i) ==
  IF i > Len(alts) THEN <<>>
  ELSE LET n == normalizeQuery(alts[i], base)
       IN (IF n.and # <<>> THEN <<n.and>> ELSE <<>>) \o n.or
          \o ExpectedOrBranches(alts, base, i + 1)

\* C2: a "$or" array adds, per alternative and in array order, exactly one
\* branch holding the alternative's conjuncts when it has any, followed by the
\* alternative's own branches (no cross product), and adds no conjunct.
C2_OrBranches ==
  CalledNormalize =>
    \A i \in ArrayEntries(doc, K_or) :
      /\ norm.and = normalizeQuery(Before(doc, i), basePath).and
                    \o normalizeQuery(After(doc, i), basePath).and
      /\ norm.or = normalizeQuery(Before(doc, i), basePath).or
                   \o ExpectedOrBranches(doc.kids[i].kids, basePath, 1)
                   \o normalizeQuery(After(doc, i), basePath).or

\* a normalized $or with an alternative that has both conjuncts and a nested
\* $or, next to another alternative
C2_Witness ==
  /\ CalledNormalize
  /\ \E i \in ArrayEntries(doc, K_or) :
       /\ Len(doc.kids[i].kids) >= 2
       /\ \E a \in 1..Len(doc.kids[i].kids) :
            LET n == normalizeQuery(doc.kids[i].kids[a], basePath)
            IN n.and # <<>> /\ Len(n.or) >= 2
  /\ Len(norm.or) >= 4
  /\ basePath # S_empty

\* a document whose only key is "$and" with an array value
IsAndDoc(q) == q.t = "obj" /\ Len(q.keys) = 1 /\ q.keys[1] = K_and /\ q.kids[1].t = "arr"

RECURSIVE ExpectedAnd(_, _, _)
\* the in-order concatenation of the results of the elements, a nested
\* {$and: [...]} element being replaced by the concatenation of its own
ExpectedAnd(subs, base, i) ==
  IF i > Len(subs) THEN [and |-> <<>>, or |-> <<>>]
  ELSE LET n == IF IsAndDoc(subs[i]) THEN ExpectedAnd(subs[i].kids[1].kids, base, 1)
                ELSE normalizeQuery(subs[i], base)
           r == ExpectedAnd(subs, base, i + 1)
       IN [and |-> n.and \o r.and, or |-> n.or \o r.or]

\* C9: a "$and" array contributes the in-order concatenation of the conjuncts
\* and of the branches of its elements, at any nesting depth of $and.
C9_AndConcat ==
  CalledNormalize =>
    \A i \in ArrayEntries(doc, K_and) :
      LET b == normalizeQuery(Before(doc, i), basePath)
          e == ExpectedAnd(doc.kids[i].kids, basePath, 1)
          a == normalizeQuery(After(doc, i), basePath)
      IN /\ norm.and = b.and \o e.and \o a.and
         /\ norm.or = b.or \o e.or \o a.or

\* a normalized $and of two elements, the first a $and itself, giving three
\* conjuncts that are not all the same
C9_Witness ==
  /\ CalledNormalize
  /\ \E i \in ArrayEntries(doc, K_and) :
       /\ Len(doc.kids[i].kids) = 2
       /\ IsAndDoc(doc.kids[i].kids[1])
  /\ Len(norm.and) = 3
  /\ norm.and[1] # norm.and[2] /\ norm.and[2] # norm.and[3]

RECURSIVE StripNor(_)
\* the document without its "$nor" entries, at the top level and inside the
\* elements of its $and / $or arrays
StripNor(q) ==
  IF q.t # "obj" THEN q
  ELSE LET keep == SetToSortedSeq({ i \in 1..Len(q.keys) : q.keys[i] # K_nor })
           Strip(k, x) ==
             IF k \in {K_and, K_or} /\ x.t = "arr"
             THEN Arr(x.v, [j \in 1..Len(x.kids) |-> StripNor(x.kids[j])])
             ELSE x
       IN Obj([j \in 1..Len(keep) |-> q.keys[keep[j]]],
              [j \in 1..Len(keep) |-> Strip(q.keys[keep[j]], q.kids[keep[j]])])

\* C10: a "$nor" entry, at the top level or inside a $and / $or element,
\* contributes nothing: normalizeQuery and getFilterOps give what they give
\* for the document without it.
C10_NorIgnored ==
  /\ CalledNormalize => norm = normalizeQuery(StripNor(doc), basePath)
  /\ CalledGetOps => ops = getFilterOps(StripNor(doc), fieldPath, options)

\* both functions were called on a document that has a $nor on the queried
\* field inside a $and / $or element, next to constraints that are returned
C10_Witness ==
  /\ CalledNormalize /\ CalledGetOps
  /\ doc.t = "obj" /\ Len(doc.keys) = 1 /\ doc.keys[1] \in {K_and, K_or}
  /\ StripNor(doc) # doc
  /\ \E j \in 1..Len(doc.kids[1].kids) :
       LET e == doc.kids[1].kids[j]
       IN /\ e.t = "obj"
          /\ \E i \in 1..Len(e.keys) :
               e.keys[i] = K_nor /\ Mentions(normalizeQuery(e.kids[i].kids[1], S_empty).and, fieldPath)
  /\ ops.kind # "undefined"

\* a key that carries the reserved leading "$"
HasSigil(k) == k # <<>> /\ Head(k) = "$"

\* the positions of the top-level keys that are field keys
FieldEntries(d) ==
  IF d.t = "obj" THEN { i \in 1..Len(d.keys) : ~HasSigil(d.keys[i]) } ELSE {}

\* base.key, or key alone under the default base
Dotted(base, key) == IF base = <<>> THEN key ELSE base \o <<".">> \o key

\* C3: a field whose value is a plain mapping gives one predicate per key, on
\* the field's path, only when ALL keys of the mapping are operator tokens;
\* with at least one non-operator key the mapping is normalized recursively
\* under the field's path, so that no entry of it is dropped.
C3_MixedMappingRecurses ==
  CalledNormalize =>
    \A i \in FieldEntries(doc) :
      LET m == doc.kids[i]
          path == Dotted(basePath, doc.keys[i])
          b == normalizeQuery(Before(doc, i), basePath)
          a == normalizeQuery(After(doc, i), basePath)
          c == IF \A j \in 1..Len(m.keys) : HasSigil(m.keys[j])
               THEN [and |-> [j \in 1..Len(m.keys) |->
                                [path |-> path, op |-> m.keys[j], value |-> m.kids[j]]],
                     or |-> <<>>]
               ELSE normalizeQuery(m, path)
      IN m.t = "obj" =>
           /\ norm.and = b.and \o c.and \o a.and
           /\ norm.or = b.or \o c.or \o a.or

\* every predicate of a normalized query, conjuncts first, then branch by branch
RECURSIVE FlattenBranches(_, _)
FlattenBranches(or, i) ==
  IF i > Len(or) THEN <<>> ELSE or[i] \o FlattenBranches(or, i + 1)

AllPreds(n) == n.and \o FlattenBranches(n.or, 1)

\* C4: the operator of every predicate normalizeQuery produces, in the
\* conjuncts and in every branch, belongs to the closed operator set.
C4_ClosedOperatorSet ==
  CalledNormalize =>
    \A i \in 1..Len(AllPreds(norm)) : AllPreds(norm)[i].op \in MqlOperator

RECURSIVE FieldLeaves(_, _)
\* the values that are not plain mappings and are reached from q through
\* nested field keys only, each with the dot-join of the keys on its way
FieldLeaves(q, prefix) ==
  LET Leaf(i) ==
        LET ks == Append(prefix, q.keys[i])
        IN IF HasSigil(q.keys[i]) THEN {}
           ELSE IF q.kids[i].t = "obj" THEN FieldLeaves(q.kids[i], ks)
           ELSE { [keys |-> ks, value |-> q.kids[i]] }
  IN UNION { Leaf(i) : i \in 1..Len(q.keys) }

RECURSIVE DotJoin(_)
DotJoin(ks) ==
  IF Len(ks) = 1 THEN ks[1] ELSE ks[1] \o <<".">> \o DotJoin(Tail(ks))

\* C8: a value that is not a plain mapping, reached through the nested field
\* keys k1..kn, gives exactly one predicate: path k1.k2...kn, operator $eq and
\* the value itself; and every predicate path is non-empty.
C8_LeafGivesOneEquality ==
  (CalledNormalize /\ basePath = S_empty /\ doc.t = "obj"
                   /\ FieldEntries(doc) = 1..Len(doc.keys)) =>
    /\ \A l \in FieldLeaves(doc, <<>>) :
         Cardinality({ i \in 1..Len(norm.and) :
                         norm.and[i] = [path |-> DotJoin(l.keys), op |-> K_eq,
                                        value |-> l.value] })
           = Cardinality({ k \in FieldLeaves(doc, <<>>) :
                             DotJoin(k.keys) = DotJoin(l.keys) /\ k.value = l.value })
    /\ \A i \in 1..Len(AllPreds(norm)) : AllPreds(norm)[i].path # <<>>

\* the elements of a $and / $or array that are plain mappings, those
\* mappings cleaned in the same way
RECURSIVE OnlyMappings(_)
OnlyMappings(q) ==
  IF q.t # "obj" THEN q
  ELSE LET Clean(k, x) ==
             IF k \in {K_and, K_or} /\ x.t = "arr"
             THEN LET keep == SetToSortedSeq({ j \in 1..Len(x.kids) : x.kids[j].t = "obj" })
                  IN Arr(x.v, [j \in 1..Len(keep) |-> OnlyMappings(x.kids[keep[j]])])
             ELSE x
       IN Obj(q.keys, [i \in 1..Len(q.keys) |-> Clean(q.keys[i], q.kids[i])])

\* C11: for a document that is null, undefined, a primitive or an array,
\* normalizeQuery returns {and: [], or: []}; an element of a $and / $or array
\* that is not a plain mapping contributes no predicate and no branch.
C11_MalformedIsEmpty ==
  CalledNormalize =>
    /\ doc.t \in {"null", "undef", "num", "arr"} => norm = [and |-> <<>>, or |-> <<>>]
    /\ norm = normalizeQuery(OnlyMappings(doc), basePath)

\* a normalized $and / $or array that holds an array or a date next to a
\* mapping whose predicate is returned
C11_Witness ==
  /\ CalledNormalize
  /\ \E i \in ArrayEntries(doc, K_and) \cup ArrayEntries(doc, K_or) :
       /\ \E j \in 1..Len(doc.kids[i].kids) : doc.kids[i].kids[j].t \in {"arr", "date"}
       /\ \E j \in 1..Len(doc.kids[i].kids) : doc.kids[i].kids[j].t = "obj"
  /\ Len(AllPreds(norm)) = 1

CalledGetValue == "getFilterValue" \in calls

\* what getFilterOps gives for the arguments of the last call
R == getFilterOps(doc, fieldPath, options)

\* the bag getFilterValue reads: the single bag, or the first of the array
Selected == IF R.kind = "array" THEN R.bags[1] ELSE R.bag

\* the result is the getFilterOps result, unchanged
IsOpsResult(v, r) == v.kind = r.kind /\ v.bag = r.bag /\ v.bags = r.bags

\* the result is the value x
IsValue(v, x) == IF x.t = "undef" THEN v.kind = "undefined"
                 ELSE v.kind = "value" /\ v.value = x

\* C13 as stated: with op omitted, getFilterValue returns the $eq value
\* whenever the selected bag has a $eq entry and the getFilterOps result
\* otherwise; it returns undefined exactly when getFilterOps does.
C13_EqWheneverPresent ==
  (CalledGetValue /\ opArg = S_empty) =>
    /\ (val.kind = "undefined") <=> (R.kind = "undefined")
    /\ R.kind # "undefined" =>
         IF BagHas(Selected, K_eq) THEN IsValue(val, BagGet(Selected, K_eq))
         ELSE IsOpsResult(val, R)

\* C13, amended: with op omitted, getFilterValue returns the $eq value
\* whenever the selected bag has a $eq entry whose value is not undefined, and
\* the getFilterOps result otherwise; it returns undefined exactly when
\* getFilterOps does.
C13_EqWhenDefined ==
  (CalledGetValue /\ opArg = S_empty) =>
    /\ (val.kind = "undefined") <=> (R.kind = "undefined")
    /\ R.kind # "undefined" =>
         IF BagHas(Selected, K_eq) /\ BagGet(Selected, K_eq).t # "undef"
         THEN val.kind = "value" /\ val.value = BagGet(Selected, K_eq)
         ELSE IsOpsResult(val, R)

\* an "all" call without op whose first bag holds $eq while a later bag
\* does not: the $eq value is returned, not the array
C13_Witness ==
  /\ CalledGetValue /\ opArg = S_empty
  /\ R.kind = "array" /\ Len(R.bags) >= 2
  /\ BagHas(R.bags[1], K_eq) /\ ~BagHas(R.bags[2], K_eq)
  /\ val.kind = "value"

\* C14: with op given, getFilterValue returns the value under op in the
\* single bag, or in the FIRST element only of an "all" array, and undefined
\* when that bag lacks the operator (or when getFilterOps returns undefined).
C14_OpFromFirstBagOnly ==
  (CalledGetValue /\ opArg # S_empty) =>
    IF R.kind # "undefined" /\ BagHas(Selected, opArg)
    THEN IsValue(val, BagGet(Selected, opArg))
    ELSE val.kind = "undefined"

\* an "all" call with an op that the first bag lacks and the second has
C14_Witness ==
  /\ CalledGetValue /\ opArg # S_empty
  /\ R.kind = "array" /\ Len(R.bags) >= 2
  /\ ~BagHas(R.bags[1], opArg) /\ BagHas(R.bags[2], opArg)
  /\ val.kind = "undefined"

CalledEqual == "areQueriesEqual" \in calls

\* both are objects with the same single key
SameSingleKey(a, b) ==
  a.t = "obj" /\ b.t = "obj" /\ Len(a.keys) = 1 /\ a.keys = b.keys

RECURSIVE ArraysByIndex(_, _, _)
\* where a and b hold arrays at the same place (under the same single keys),
\* the verdict e is: same length and pairwise deep-equal at the same index
ArraysByIndex(a, b, e) ==
  IF a.t = "arr" /\ b.t = "arr"
  THEN e <=> /\ Len(a.kids) = Len(b.kids)
             /\ \A i \in 1..Len(a.kids) : i <= Len(b.kids) /\ deepEqual(a.kids[i], b.kids[i])
  ELSE IF SameSingleKey(a, b) THEN ArraysByIndex(a.kids[1], b.kids[1], e)
  ELSE TRUE

KeySet(d) == { d.keys[i] : i \in 1..Len(d.keys) }
FieldOf(d, k) == d.kids[CHOOSE i \in 1..Len(d.keys) : d.keys[i] = k]

\* C16: two plain objects are equal exactly when they have the same set of
\* keys and deep-equal values under each key, whatever the order of the keys.
C16_KeyOrderIrrelevant ==
  (CalledEqual /\ doc.t = "obj" /\ doc2.t = "obj") =>
    (eq <=> /\ KeySet(doc) = KeySet(doc2)
            /\ \A k \in KeySet(doc) \cap KeySet(doc2) :
                 deepEqual(FieldOf(doc, k), FieldOf(doc2, k)))

\* two objects that list the same two keys in different orders were found equal
C16_Witness ==
  /\ CalledEqual
  /\ doc.t = "obj" /\ doc2.t = "obj"
  /\ Len(doc.keys) = 2 /\ doc.keys # doc2.keys /\ KeySet(doc) = KeySet(doc2)
  /\ eq = TRUE

RECURSIVE OthersByIdentity(_, _, _)
\* where a and b hold a date or a pattern at the same place, the verdict e
\* is: they are the same object
OthersByIdentity(a, b, e) ==
  IF a.t \in {"date", "regex"} /\ b.t \in {"date", "regex"}
  THEN e <=> (a.t = b.t /\ a.v = b.v)
  ELSE IF SameSingleKey(a, b) THEN OthersByIdentity(a.kids[1], b.kids[1], e)
  ELSE TRUE

\* C17: a value that is neither a primitive, an array nor a plain object (a
\* date, a pattern) is compared by identity: two such values at the same
\* place are equal only if they are the same object.
C17_OthersByIdentity ==
  CalledEqual => OthersByIdentity(doc, doc2, eq)

Nullish(x) == x.t \in {"null", "undef"}

\* number, string or object
RuntimeType(x) == IF x.t \in {"num", "str"} THEN x.t ELSE "object"

ShapeMismatch(a, b) ==
  \/ Nullish(a) # Nullish(b)
  \/ (Nullish(a) /\ Nullish(b) /\ a.t # b.t)
  \/ (~Nullish(a) /\ ~Nullish(b) /\ RuntimeType(a) # RuntimeType(b))
  \/ (~Nullish(a) /\ ~Nullish(b) /\ (a.t = "arr") # (b.t = "arr"))

RECURSIVE MismatchInside(_, _)
\* a and b differ in shape, or hold values that do at the same index of two
\* arrays or under the same key of two plain objects
MismatchInside(a, b) ==
  \/ ShapeMismatch(a, b)
  \/ /\ a.t = "arr" /\ b.t = "arr"
     /\ \E i \in 1..Len(a.kids) : i <= Len(b.kids) /\ MismatchInside(a.kids[i], b.kids[i])
  \/ /\ a.t = "obj" /\ b.t = "obj"
     /\ \E k \in KeySet(a) \cap KeySet(b) : MismatchInside(FieldOf(a, k), FieldOf(b, k))

\* C18: areQueriesEqual returns false when, at any nesting depth, one side is
\* null or undefined and the other is not, one is null and the other
\* undefined, the runtime types differ or one is an array and the other not.
C18_ShapeMismatchIsFalse ==
  (CalledEqual /\ MismatchInside(doc, doc2)) => eq = FALSE

\* two objects alike but for null against undefined under the same key
C18_Witness ==
  /\ CalledEqual
  /\ SameSingleKey(doc, doc2)
  /\ doc.kids[1].t = "null" /\ doc2.kids[1].t = "undef"
  /\ eq = FALSE

\* ------------------------------------------------------------ the builder
\* build() has just returned: no builder call was made since
BuiltNow == built.ref # 0 /\ built.at = Len(hist)

BuiltDocument == Document(heap, built)

\* the calls of history h made through method m, in call order
CallsOf(h, m) == SelectSeq(h, LAMBDA c : c.m = m)

\* every call of history h is one of the methods ms
OnlyCalls(h, ms) == \A i \in 1..Len(h) : h[i].m \in ms

WhereFields(h) == { h[i].field : i \in { j \in 1..Len(h) : h[j].m = "where" } }

\* the condition of the last where() of history h on field f
LastWhere(h, f) ==
  LET last == CHOOSE i \in 1..Len(h) :
                /\ h[i].m = "where" /\ h[i].field = f
                /\ \A j \in (i + 1)..Len(h) : ~(h[j].m = "where" /\ h[j].field = f)
  IN h[last].cond

LogicalKeys == {K_and, K_or, K_not}

\* the elements of the array d holds under key k, none if d has no such key
ElementsUnder(d, k) == IF k \in KeySet(d) THEN FieldOf(d, k).kids ELSE <<>>

\* the {field: condition} elements of the calls cs, in call order
Elements(cs) == [i \in 1..Len(cs) |-> O1(cs[i].field, cs[i].cond)]

\* d holds exactly what the where() and and() calls of history h say: the
\* last where() condition of each field at the top level and one $and element
\* per and() call, in call order
HoldsConditionsOf(d, h) ==
  /\ d.t = "obj"
  /\ KeySet(d) \ LogicalKeys = WhereFields(h)
  /\ \A f \in WhereFields(h) : FieldOf(d, f) = LastWhere(h, f)
  /\ ElementsUnder(d, K_and) = Elements(CallsOf(h, "and"))

\* the calls before the first or() of the history
BeforeFirstOr ==
  SubSeq(hist, 1, (CHOOSE i \in 1..Len(hist) :
                     hist[i].m = "or" /\ \A j \in 1..(i - 1) : hist[j].m # "or") - 1)

\* where() and and() calls, at least one, and then or() calls, at least one
ConditionsThenOrs ==
  /\ OnlyCalls(hist, {"where", "and", "or"})
  /\ Len(hist) > 0 /\ hist[1].m # "or" /\ hist[Len(hist)].m = "or"
  /\ \A i \in 1..Len(hist) : \A j \in i..Len(hist) : hist[i].m = "or" => hist[j].m = "or"

\* C19: when or() calls follow where() and and() calls, build() returns a
\* document whose only key is $or; the first alternative holds every
\* condition added before the first or(), through where() or and(), and the
\* alternatives after it are the {field: condition} of the or() calls, in
\* call order.
C19_OrKeepsEarlierConditions ==
  (BuiltNow /\ ConditionsThenOrs) =>
    /\ KeySet(BuiltDocument) = {K_or}
    /\ Len(ElementsUnder(BuiltDocument, K_or)) = 1 + Len(CallsOf(hist, "or"))
    /\ HoldsConditionsOf(ElementsUnder(BuiltDocument, K_or)[1], BeforeFirstOr)
    /\ SubSeq(ElementsUnder(BuiltDocument, K_or), 2, 1 + Len(CallsOf(hist, "or")))
         = Elements(CallsOf(hist, "or"))

\* C20: on a builder that saw where() and and() calls only, build() returns a
\* document whose top-level fields are exactly the fields set with where(),
\* each with the condition of its last where(), and whose $and array holds
\* one {field: condition} element per and() call, in call order.
C20_WhereAndBuild ==
  (BuiltNow /\ OnlyCalls(hist, {"where", "and"})) =>
    /\ HoldsConditionsOf(BuiltDocument, hist)
    /\ KeySet(BuiltDocument) \cap LogicalKeys \subseteq {K_and}
    /\ (K_and \in KeySet(BuiltDocument)) <=> (CallsOf(hist, "and") # <<>>)

\* a document was built after a where() and two and() calls with different
\* elements
C20_Witness ==
  /\ BuiltNow
  /\ OnlyCalls(hist, {"where", "and"})
  /\ Len(CallsOf(hist, "where")) = 1
  /\ Len(CallsOf(hist, "and")) = 2
  /\ CallsOf(hist, "and")[1] # CallsOf(hist, "and")[2]
  /\ Len(ElementsUnder(BuiltDocument, K_and)) = 2

\* the last builder call, and the calls before it
LastCall == hist[Len(hist)]
Earlier == SubSeq(hist, 1, Len(hist) - 1)
LastCallIs(m) == Len(hist) > 0 /\ LastCall.m = m

\* C21: a document built right after clear() has no keys, whatever calls
\* were made before the clear().
C21_ClearGivesEmptyDocument ==
  (BuiltNow /\ LastCallIs("clear")) => KeySet(BuiltDocument) = {}

\* history h without the calls on field f
WithoutField(h, f) == SelectSeq(h, LAMBDA c : c.field # f)

\* C22: after where() and and() calls, removeField(f) leaves a document
\* that holds no condition on f, neither at the top level nor in $and, and
\* holds the conditions on the other fields as before; with no and()
\* condition left there is no $and key.
C22_RemoveFieldRemovesAndCondition ==
  (BuiltNow /\ LastCallIs("removeField") /\ OnlyCalls(Earlier, {"where", "and"})) =>
    /\ HoldsConditionsOf(BuiltDocument, WithoutField(Earlier, LastCall.field))
    /\ (K_and \in KeySet(BuiltDocument))
         <=> (CallsOf(WithoutField(Earlier, LastCall.field), "and") # <<>>)

\* d still holds every condition the where() and and() calls of history h
\* added
StillHolds(d, h) ==
  /\ \A f \in WhereFields(h) : f \in KeySet(d) /\ FieldOf(d, f) = LastWhere(h, f)
  /\ \A i \in 1..Len(CallsOf(h, "and")) :
       \E j \in 1..Len(ElementsUnder(d, K_and)) :
         ElementsUnder(d, K_and)[j] = Elements(CallsOf(h, "and"))[i]

\* C23: after where(), and() and or() calls, removeOr() leaves a document
\* without a $or key that still holds every condition added with where() or
\* and(), before or after the or() calls.
C23_RemoveOrKeepsOtherConditions ==
  (/\ BuiltNow /\ LastCallIs("removeOr")
   /\ OnlyCalls(Earlier, {"where", "and", "or"})
   /\ CallsOf(Earlier, "or") # <<>>) =>
    /\ K_or \notin KeySet(BuiltDocument)
    /\ StillHolds(BuiltDocument, Earlier)

\* the builder is negated: of its not(), removeNot() and removeLogical()
\* calls, the last one is a not()
Negated ==
  LET S == { i \in 1..Len(hist) : hist[i].m \in {"not", "removeNot", "removeLogical"} }
  IN S # {} /\ hist[CHOOSE i \in S : \A j \in S : j <= i].m = "not"

\* the builder's current un-negated document
CurrentQuery == heap[builder.query]

\* C24: build() returns {$not: q}, q being the builder's current un-negated
\* document, when the last of the not(), removeNot() and removeLogical()
\* calls is a not(), however many not() calls were made, and returns q
\* itself otherwise; q has no $not key, and conditions added after not()
\* are inside the $not.
C24_NotWrapsOnce ==
  BuiltNow =>
    /\ K_not \notin KeySet(CurrentQuery)
    /\ BuiltDocument = IF Negated THEN O1(K_not, CurrentQuery) ELSE CurrentQuery
    /\ (Negated /\ OnlyCalls(hist, {"where", "and", "not"}))
         => HoldsConditionsOf(FieldOf(BuiltDocument, K_not), hist)

\* a document was built after not(), not() and a where()
C24_Witness ==
  /\ BuiltNow
  /\ Len(hist) = 3
  /\ hist[1].m = "not" /\ hist[2].m = "not" /\ hist[3].m = "where"
  /\ KeySet(BuiltDocument) = {K_not}
  /\ KeySet(FieldOf(BuiltDocument, K_not)) = {hist[3].field}

\* the document r refers to is the same before and after the step
Frozen(r) == (r.ref # 0 /\ r' = r) => Document(heap', r) = Document(heap, r)

\* C30: no builder call changes a document that build() returned earlier or
\* the query held by a SafeSift that execute() returned earlier.
C30_BuiltDocumentsFrozen == [][Frozen(built) /\ Frozen(sift)]_vars

\* ------------------------------------------------------------ bags again
\* the bags of a getFilterOps result
ResultBags(r) ==
  CASE r.kind = "bag" -> {r.bag}
    [] r.kind = "array" -> { r.bags[k] : k \in 1..Len(r.bags) }
    [] OTHER -> {}

\* C25: every bag getFilterOps returns holds each operator at most once, and
\* when no branch mentions the field the bag holds, for every operator of
\* the field's conjuncts, the value of the last conjunct for that field and
\* operator.
C25_LastPredicateWins ==
  CalledGetOps =>
    /\ \A bag \in ResultBags(ops) : BagKeysUnique(bag)
    /\ MentioningBranches(N.or, fieldPath) = {} =>
         \A op \in OpsFor(N.and, fieldPath) :
           /\ ops.kind = "bag"
           /\ BagHas(ops.bag, op)
           /\ BagGet(ops.bag, op) = LastValue(N.and, fieldPath, op)

\* a call on a document with a direct field key and a $and element that
\* constrain the field with the same operator and different values
C25_Witness ==
  /\ CalledGetOps
  /\ doc.t = "obj" /\ fieldPath \in KeySet(doc) /\ K_and \in KeySet(doc)
  /\ MentioningBranches(N.or, fieldPath) = {}
  /\ \E op \in OpsFor(N.and, fieldPath) :
       /\ Cardinality(Hits(N.and, fieldPath, op)) = 2
       /\ \E i \in Hits(N.and, fieldPath, op) :
            N.and[i].value # LastValue(N.and, fieldPath, op)
  /\ ops.kind = "bag"

\* --------------------------------------------------- two documents compared
\* both documents were introspected
Compared == "getFilterOps" \in calls /\ "second" \in calls

\* two bags map the same operators to the same values
SameMapping(b1, b2) ==
  /\ BagKeys(b1) = BagKeys(b2)
  /\ \A op \in BagKeys(b1) \cap BagKeys(b2) : BagGet(b1, op) = BagGet(b2, op)

\* two results of getFilterOps, or of getFilterValue, are deep-equal
SameResult(r1, r2) ==
  /\ r1.kind = r2.kind
  /\ r1.kind = "value" => r1.value = r2.value
  /\ r1.kind = "bag" => SameMapping(r1.bag, r2.bag)
  /\ r1.kind = "array" =>
       /\ Len(r1.bags) = Len(r2.bags)
       /\ \A k \in 1..Len(r1.bags) : k <= Len(r2.bags) /\ SameMapping(r1.bags[k], r2.bags[k])

\* C26: when areQueriesEqual(doc, doc2) is true, getFilterOps and
\* getFilterValue give deep-equal results for doc and for doc2, for every
\* field path and orMode.
C26_EqualQueriesSameIntrospection ==
  (Compared /\ CalledEqual /\ eq /\ options = options2) =>
    (SameResult(ops, ops2) /\ SameResult(val, val2))

\* an object with one key, which is a field name
IsFieldDocument(d) ==
  d.t = "obj" /\ Len(d.keys) = 1 /\ d.keys[1] # <<>> /\ d.keys[1][1] # "$"

\* d is {k: [...]}
IsArrayUnder(d, k) == d.t = "obj" /\ d.keys = <<k>> /\ d.kids[1].t = "arr"

\* doc is {$and: [{$or: [A, B]}, {$or: [C, D]}]} and doc2 is {$or: [A, B, C, D]},
\* with A, B, C, D documents of one field
GroupedAndFlat ==
  /\ IsArrayUnder(doc, K_and) /\ Len(doc.kids[1].kids) = 2
  /\ \A g \in 1..2 : IsArrayUnder(doc.kids[1].kids[g], K_or)
  /\ IsArrayUnder(doc2, K_or)
  /\ doc2.kids[1].kids = doc.kids[1].kids[1].kids[1].kids \o doc.kids[1].kids[2].kids[1].kids
  /\ \A i \in 1..Len(doc2.kids[1].kids) : IsFieldDocument(doc2.kids[1].kids[i])

\* the bag of a document of one field: its operators, or $eq for a value
LeafBag(v) ==
  IF v.t = "obj" THEN [i \in 1..Len(v.keys) |-> [op |-> v.keys[i], value |-> v.kids[i]]]
  ELSE <<[op |-> K_eq, value |-> v]>>

\* the alternatives of doc2 that are on the field, by index
AlternativesOn(f) == { i \in 1..Len(doc2.kids[1].kids) : doc2.kids[1].kids[i].keys[1] = f }

\* C27: two $or groups under a $and normalize to the same lists as one $or
\* of all their alternatives, and in default mode getFilterOps answers from
\* the first alternative on the field, counted across both groups.
C27_OrGroupsFlattened ==
  (Compared /\ GroupedAndFlat) =>
    /\ norm = norm2
    /\ FirstMode =>
         IF AlternativesOn(fieldPath) = {} THEN ops = ResUndefined
         ELSE LET first == CHOOSE i \in AlternativesOn(fieldPath) :
                             \A j \in AlternativesOn(fieldPath) : i <= j
              IN ops.kind = "bag" /\ ops.bag = LeafBag(doc2.kids[1].kids[first].kids[1])

\* a default-mode call where the first alternative on the field is in the
\* second group
C27_Witness ==
  /\ Compared /\ GroupedAndFlat /\ FirstMode
  /\ AlternativesOn(fieldPath) # {}
  /\ \A i \in AlternativesOn(fieldPath) : i >= 3
  /\ Len(norm.or) = 4
  /\ ops.kind = "bag"

\* d without its $not entry
WithoutNot(d) ==
  LET K == SetToSortedSeq({ i \in 1..Len(d.keys) : d.keys[i] # K_not })
  IN Obj([j \in 1..Len(K) |-> d.keys[K[j]]], [j \in 1..Len(K) |-> d.kids[K[j]]])

BeginsWithNot(f) == Len(f) >= Len(K_not) /\ SubSeq(f, 1, Len(K_not)) = K_not

\* doc has a $not entry and doc2 is doc without it
NotRemoved == doc.t = "obj" /\ K_not \in KeySet(doc) /\ doc2 = WithoutNot(doc)

\* C28: for a field path that does not begin with $not, getFilterOps gives
\* the same result for a document and for the document without its $not
\* entry.
C28_NotIsNeverPositive ==
  (Compared /\ NotRemoved /\ options = options2 /\ ~BeginsWithNot(fieldPath)) =>
    ops = ops2

\* a document constrains the field at the top level and inside $not, and
\* only the top-level constraint is reported
C28_Witness ==
  /\ Compared /\ NotRemoved /\ options = options2
  /\ fieldPath \in KeySet(doc)
  /\ FieldOf(doc, K_not).t = "obj" /\ fieldPath \in KeySet(FieldOf(doc, K_not))
  /\ FieldOf(doc, K_not) # doc2
  /\ ops.kind = "bag" /\ ops = ops2

\* C29: for one document and field path, when "all" mode gives an array its
\* first element deep-equals the default-mode result, and when it gives a
\* bag or undefined the default mode gives the same.
C29_ModesAgreeOnFirst ==
  (Compared /\ doc = doc2 /\ AllMode /\ options2.orMode \in {"unset", "first"}) =>
    IF ops.kind = "array"
    THEN ops2.kind = "bag" /\ Len(ops.bags) >= 1 /\ SameMapping(ops.bags[1], ops2.bag)
    ELSE ops2 = ops

\* "all" mode gave two different bags and the default mode the first of them
C29_Witness ==
  /\ Compared /\ doc = doc2 /\ AllMode /\ options2.orMode = "unset"
  /\ ops.kind = "array" /\ Len(ops.bags) = 2
  /\ ~SameMapping(ops.bags[1], ops.bags[2])
  /\ ops2.kind = "bag"

====
